---------------------------- MODULE Spec2Model ----------------------------
(***************************************************************************)
(* SQLGenie: the /optimize endpoint (main.py) and the rewrite engine       *)
(* (optimizer.py): the structural rewriter built on the sqlglot tree, the  *)
(* regex fallback rewriter and the dispatcher that joins them.             *)
(*                                                                         *)
(* Texts are TLA+ strings, handled character by character (Len, SubSeq,    *)
(* \o), so that the regular expressions of the fallback rewriter and the   *)
(* tokenizer of the parser act on the same characters as the program.      *)
(* The em dash of two advisory texts is written "-": it takes part in no   *)
(* pattern.                                                                *)
(***************************************************************************)
EXTENDS Integers, Sequences, FiniteSets, TLC

\* A local variable of the code: F applied to the value of v, which is
\* computed once however often F uses it.
With(v, F(_)) == CHOOSE r \in {F(w) : w \in {v}} : TRUE

(***************************************************************************)
(* Characters and the character classes of Python's re (\s, \d, \w) on     *)
(* the ASCII texts of the model.                                           *)
(***************************************************************************)
Ch(s, i) == SubSeq(s, i, i)

LowerLetters == "abcdefghijklmnopqrstuvwxyz"
UpperLetters == "ABCDEFGHIJKLMNOPQRSTUVWXYZ"
DigitChars == "0123456789"

CharsOf(s) == {Ch(s, i) : i \in 1..Len(s)}

Space == {" ", "\t", "\n", "\r", "\f"}
Digit == CharsOf(DigitChars)
Word == CharsOf(LowerLetters) \cup CharsOf(UpperLetters) \cup Digit \cup {"_"}

UpMap == [c \in CharsOf(LowerLetters) |->
            Ch(UpperLetters, CHOOSE i \in 1..26 : Ch(LowerLetters, i) = c)]

UpperCh(c) == IF c \in DOMAIN UpMap THEN UpMap[c] ELSE c

\* f[lo] \o ... \o f[hi], by halves
RECURSIVE ConcatRange(_, _, _)
ConcatRange(f, lo, hi) ==
    IF lo > hi THEN <<>>
    ELSE IF lo = hi THEN f[lo]
    ELSE With((lo + hi) \div 2,
              LAMBDA mid : ConcatRange(f, lo, mid) \o ConcatRange(f, mid + 1, hi))

\* str.upper()
Upper(s) ==
    IF s = "" THEN ""
    ELSE ConcatRange([i \in 1..Len(s) |-> UpperCh(Ch(s, i))], 1, Len(s))

\* `sub in s`
Contains(s, sub) ==
    \E i \in 1..(Len(s) - Len(sub) + 1) : SubSeq(s, i, i + Len(sub) - 1) = sub

EndsWith(s, suffix) ==
    /\ Len(s) >= Len(suffix)
    /\ SubSeq(s, Len(s) - Len(suffix) + 1, Len(s)) = suffix

\* a greedy run of characters of class C from position i: the position after it
Skip(s, i, C) ==
    IF i > Len(s) THEN i
    ELSE CHOOSE j \in i..(Len(s) + 1) :
           /\ j = Len(s) + 1 \/ Ch(s, j) \notin C
           /\ \A k \in i..(j - 1) : Ch(s, k) \in C

\* the last position whose character is not in C, 0 when there is none
LastOutside(s, C) ==
    CHOOSE j \in 0..Len(s) :
      /\ j = 0 \/ Ch(s, j) \notin C
      /\ \A k \in (j + 1)..Len(s) : Ch(s, k) \in C

\* str.rstrip(chars), str.strip()
RStrip(s, C) == SubSeq(s, 1, LastOutside(s, C))

Strip(s) == SubSeq(s, Skip(s, 1, Space), LastOutside(s, Space))

\* '\n'.join(lines) and sep.join(lines)
JoinWith(lines, sep) ==
    With(lines, LAMBDA l :
      IF l = <<>> THEN ""
      ELSE ConcatRange([k \in 1..Len(l) |-> IF k = 1 THEN l[1] ELSE sep \o l[k]],
                       1, Len(l)))

Min(S) == With(S, LAMBDA T : CHOOSE x \in T : \A y \in T : x <= y)
Max(S) == With(S, LAMBDA T : CHOOSE x \in T : \A y \in T : x >= y)

\* the elements of a small set of numbers in increasing order
SortSet(S) ==
    With(S, LAMBDA T :
      [k \in 1..Cardinality(T) |->
         CHOOSE x \in T : Cardinality({y \in T : y < x}) = k - 1])

(***************************************************************************)
(* The regular expressions of the fallback rewriter, all compiled with     *)
(* re.IGNORECASE.  A matcher gives, for a start position i, the position   *)
(* after the match, or 0 when the pattern does not match at i.             *)
(***************************************************************************)
\* a literal, case-insensitively, at position i
MatchLit(s, i, lit) ==
    /\ i >= 1
    /\ i + Len(lit) - 1 <= Len(s)
    /\ \A k \in 1..Len(lit) : UpperCh(Ch(s, i + k - 1)) = Ch(lit, k)

\* r"SELECT\s*\*"
ReSelectStar(s, i) ==
    IF ~MatchLit(s, i, "SELECT") THEN 0
    ELSE LET j == Skip(s, i + 6, Space)
         IN  IF j <= Len(s) /\ Ch(s, j) = "*" THEN j + 1 ELSE 0

FromClass == Word \cup Space \cup {","}

\* r"FROM\s+([\w\s,]+)": [end, g1, g2] with group 1 = s[g1..g2], end 0 for no match.
\* \s+ is greedy; when nothing of the class follows the white space it gives its
\* last character back to the group.
ReFrom(s, i) ==
    IF ~MatchLit(s, i, "FROM") THEN [end |-> 0, g1 |-> 0, g2 |-> 0]
    ELSE LET j == Skip(s, i + 4, Space)
             k == Skip(s, j, FromClass)
         IN  IF j = i + 4 THEN [end |-> 0, g1 |-> 0, g2 |-> 0]
             ELSE IF k > j THEN [end |-> k, g1 |-> j, g2 |-> k - 1]
             ELSE IF j - (i + 4) >= 2 THEN [end |-> j, g1 |-> j - 1, g2 |-> j - 1]
             ELSE [end |-> 0, g1 |-> 0, g2 |-> 0]

\* r"IN\s*\(\s*SELECT"
ReInSelect(s, i) ==
    IF ~MatchLit(s, i, "IN") THEN 0
    ELSE LET j == Skip(s, i + 2, Space)
         IN  IF ~(j <= Len(s) /\ Ch(s, j) = "(") THEN 0
             ELSE LET k == Skip(s, j + 1, Space)
                  IN  IF MatchLit(s, k, "SELECT") THEN k + 6 ELSE 0

\* r"LIMIT\s+\d+"
ReLimit(s, i) ==
    IF ~MatchLit(s, i, "LIMIT") THEN 0
    ELSE LET j == Skip(s, i + 5, Space)
             k == Skip(s, j, Digit)
         IN  IF j > i + 5 /\ k > j THEN k ELSE 0

SubqueryClass == Word \cup Space \cup {"*", ","}

\* r"IN\s*\(\s*SELECT\s+([\w\*,\s]+)\s+FROM": [end, g1, g2].  After SELECT the
\* first \s+ and the group are greedy and backtrack: the match takes the latest
\* group start a (after white space only) and then the latest group end b that
\* leave white space and FROM behind the group.
ReInSubquery(s, i) ==
    LET p == ReInSelect(s, i)
        none == [end |-> 0, g1 |-> 0, g2 |-> 0]
    IN  IF p = 0 THEN none
        ELSE LET w == Skip(s, p, Space)
                 r == Skip(s, p, SubqueryClass)
                 \* b: a group end such that \s+FROM follows
                 Ends == {b \in p..(r - 1) :
                            /\ b + 1 <= Len(s)
                            /\ Ch(s, b + 1) \in Space
                            /\ MatchLit(s, Skip(s, b + 1, Space), "FROM")}
                 Starts == {a \in (p + 1)..w : \E b \in Ends : a <= b}
             IN  IF Starts = {} THEN none
                 ELSE LET a == Max(Starts)
                          b == Max({e \in Ends : a <= e})
                      IN  [end |-> Skip(s, b + 1, Space) + 4, g1 |-> a, g2 |-> b]

\* where a pattern matches in a text: for every start position the end of the
\* match there, 0 for none
SelectStarEnds(s) == [i \in 1..Len(s) |-> ReSelectStar(s, i)]
FromEnds(s) == [i \in 1..Len(s) |-> ReFrom(s, i).end]
InSelectEnds(s) == [i \in 1..Len(s) |-> ReInSelect(s, i)]
LimitEnds(s) == [i \in 1..Len(s) |-> ReLimit(s, i)]
InSubqueryEnds(s) == [i \in 1..Len(s) |-> ReInSubquery(s, i).end]

\* re.search: the leftmost position where the pattern matches, 0 for None
SearchPos(ends) ==
    With({i \in DOMAIN ends : ends[i] # 0}, LAMBDA S : IF S = {} THEN 0 ELSE Min(S))

\* re.sub: every non-overlapping match, leftmost first, replaced by repl
RECURSIVE SubFrom(_, _, _, _)
SubFrom(s, ends, repl, i) ==
    With({m \in DOMAIN ends : m >= i /\ ends[m] # 0}, LAMBDA S :
      IF S = {} THEN SubSeq(s, i, Len(s))
      ELSE With(Min(S), LAMBDA m :
           With(ends[m], LAMBDA e :
             SubSeq(s, i, m - 1) \o repl \o SubFrom(s, ends, repl, e))))

ReSub(s, ends, repl) == SubFrom(s, ends, repl, 1)

\* [t.strip() for t in s.split(',')]
SplitComma(s) ==
    With(SortSet({i \in 1..Len(s) : Ch(s, i) = ","}), LAMBDA cut :
      [k \in 1..(Len(cut) + 1) |->
         Strip(SubSeq(s, IF k = 1 THEN 1 ELSE cut[k - 1] + 1,
                         IF k = Len(cut) + 1 THEN Len(s) ELSE cut[k] - 1))])

(***************************************************************************)
(* The findings: the advisory comment and the explanation of each kind.    *)
(***************************************************************************)
Kinds == <<"SelectStar", "ImplicitJoin", "SubqueryInInClause", "MissingLimit",
           "SubqueryMissingDedup">>

Comment ==
    [SelectStar |-> "-- SELECT *: Fetches all columns - inefficient.",
     ImplicitJoin |-> "-- Implicit JOIN: Using comma-separated tables instead of JOIN syntax - harder to read/optimize.",
     SubqueryInInClause |-> "-- Subquery in IN clause: Can be slow; better as a JOIN or EXISTS.",
     MissingLimit |-> "-- No pagination (e.g., LIMIT) if this returns many rows.",
     SubqueryMissingDedup |-> "-- No deduplication in subquery: Use DISTINCT in subquery to avoid duplicates."]

Explanation ==
    [SelectStar |-> "SELECT * replaced with explicit columns for better performance and clarity.",
     ImplicitJoin |-> "Implicit joins replaced with explicit JOIN syntax for readability and optimization.",
     SubqueryInInClause |-> "Subquery in IN replaced with CTE and JOIN for better performance.",
     MissingLimit |-> "Added LIMIT 100 to prevent heavy queries on large datasets.",
     SubqueryMissingDedup |-> "Added DISTINCT in subquery for deduplication."]

CteAdvice == "-- Consider using a CTE for the subquery in IN clause.\n"
Banner == "\n-- What Was Optimized and Why:\n-- "
LimitClause == "\nLIMIT 100;"

\* the two lists a rewriter fills, and what it appends to them for one finding
NoNotes == [suggestions |-> <<>>, explanations |-> <<>>, kinds |-> <<>>]

Record(notes, kind) ==
    [suggestions |-> Append(notes.suggestions, Comment[kind]),
     explanations |-> Append(notes.explanations, Explanation[kind]),
     kinds |-> Append(notes.kinds, kind)]

\* an assembly that appends the banner whether or not there is an explanation
AssembleAlwaysBanner(notes, body) ==
    (IF notes.suggestions # <<>>
     THEN JoinWith(notes.suggestions, "\n") \o "\n" \o body
     ELSE body) \o Banner \o JoinWith(notes.explanations, "\n-- ")

\* steps "5. Add suggestions and explanations" of both rewriters
Assemble(notes, body) ==
    With(IF notes.suggestions # <<>>
         THEN JoinWith(notes.suggestions, "\n") \o "\n" \o body
         ELSE body,
         LAMBDA withComments :
           IF notes.explanations # <<>>
           THEN withComments \o Banner \o JoinWith(notes.explanations, "\n-- ")
           ELSE withComments)

(***************************************************************************)
(* The fallback text rewriter: optimize_sql after the structural rewriter  *)
(* gave nothing.                                                           *)
(***************************************************************************)
\* sqlparse.parse: one statement per non-empty text, none for the empty text
SqlparseParse(query) == IF query = "" THEN <<>> ELSE <<query>>

\* (A) Detect SELECT *
FbSelectStar(query, st) ==
    IF SearchPos(SelectStarEnds(query)) # 0
    THEN [notes |-> Record(st.notes, "SelectStar"),
          text |-> ReSub(st.text, SelectStarEnds(st.text), "SELECT col1, col2")]
    ELSE st

\* (A) Detect implicit joins (comma-separated tables)
FbImplicitJoin(query, st) ==
    With(SearchPos(FromEnds(query)), LAMBDA at :
      IF at = 0 THEN st
      ELSE With(ReFrom(query, at), LAMBDA m :
           With(SubSeq(query, m.g1, m.g2), LAMBDA group :
             IF ~Contains(group, ",") THEN st
             ELSE With(SplitComma(group), LAMBDA tables :
                    [notes |-> Record(st.notes, "ImplicitJoin"),
                     text |-> IF Len(tables) = 2
                              THEN ReSub(st.text, FromEnds(st.text),
                                         "FROM " \o tables[1] \o " JOIN " \o tables[2]
                                                 \o " ON <join_condition>")
                              ELSE st.text]))))

\* (A) Detect subquery in IN clause
FbSubqueryInIn(query, st) ==
    IF SearchPos(InSelectEnds(query)) # 0
    THEN [notes |-> Record(st.notes, "SubqueryInInClause"),
          text |-> CteAdvice \o st.text]
    ELSE st

\* (A) Detect missing LIMIT
FbMissingLimit(query, st) ==
    IF SearchPos(LimitEnds(query)) = 0
    THEN [notes |-> Record(st.notes, "MissingLimit"),
          text |-> IF ~EndsWith(Strip(st.text), ";")
                   THEN st.text \o LimitClause
                   ELSE RStrip(st.text, {";"}) \o LimitClause]
    ELSE st

\* (A) Detect no deduplication in subquery (simple heuristic)
FbSubqueryDedup(query, st) ==
    With(SearchPos(InSubqueryEnds(query)), LAMBDA at :
      IF at = 0 THEN st
      ELSE With(ReInSubquery(query, at), LAMBDA m :
           With(Upper(SubSeq(query, m.g1, m.g2)), LAMBDA group :
             IF Contains(group, "DISTINCT") THEN st
             ELSE [notes |-> Record(st.notes, "SubqueryMissingDedup"),
                   text |-> ReSub(st.text, InSelectEnds(st.text),
                                  "IN (SELECT DISTINCT")])))

\* the regex-based body of optimize_sql; raised: the ValueError of an unparsable text
Fallback(query) ==
    IF SqlparseParse(query) = <<>>
    THEN [raised |-> TRUE]
    ELSE With(FbSelectStar(query, [notes |-> NoNotes, text |-> query]), LAMBDA s1 :
         With(FbImplicitJoin(query, s1), LAMBDA s2 :
         With(FbSubqueryInIn(query, s2), LAMBDA s3 :
         With(FbMissingLimit(query, s3), LAMBDA s4 :
         With(FbSubqueryDedup(query, s4), LAMBDA s5 :
           [raised |-> FALSE, notes |-> s5.notes, body |-> s5.text,
            beforeLimit |-> s3.text, afterLimit |-> s4.text,
            beforeJoin |-> s1.text, afterJoin |-> s2.text,
            beforeDedup |-> s4.text,
            out |-> Assemble(s5.notes, s5.text)])))))

(***************************************************************************)
(* The parser capability (sqlglot), as the structural rewriter uses it:    *)
(* parse_one gives a tree of typed nodes or raises; find searches a tree   *)
(* breadth first; sql(pretty=True) serializes it.  The grammar covers the  *)
(* SELECT statements of the model: projections, comma-separated and        *)
(* joined tables, derived tables, WHERE with =, AND and IN, ORDER BY and   *)
(* LIMIT.  Comments are dropped by the tokenizer.                          *)
(***************************************************************************)
None == [kind |-> "None"]

Reserved == {"SELECT", "DISTINCT", "FROM", "JOIN", "ON", "WHERE", "AND", "IN",
             "ORDER", "BY", "LIMIT", "AS"}

\* the token that starts at position i, if one does: a word is a maximal run
\* of \w, every other character but white space is a token of its own
TokenAt(s, i) ==
    IF Ch(s, i) \in Space THEN <<>>
    ELSE IF Ch(s, i) \notin Word THEN <<Ch(s, i)>>
    ELSE IF i > 1 /\ Ch(s, i - 1) \in Word THEN <<>>
    ELSE <<SubSeq(s, i, Skip(s, i, Word) - 1)>>

RECURSIVE TokensIn(_, _, _)
TokensIn(s, lo, hi) ==
    IF lo > hi THEN <<>>
    ELSE IF lo = hi THEN TokenAt(s, lo)
    ELSE With((lo + hi) \div 2,
              LAMBDA mid : TokensIn(s, lo, mid) \o TokensIn(s, mid + 1, hi))

\* the tokens of a text, line by line; a "--" comment runs to the end of its line
Tokenize(s) ==
    With(SortSet({i \in 1..Len(s) : Ch(s, i) = "\n"}), LAMBDA eol :
      LET first(k) == IF k = 1 THEN 1 ELSE eol[k - 1] + 1
          last(k) == IF k = Len(eol) + 1 THEN Len(s) ELSE eol[k] - 1
          code(k) == With({j \in first(k)..(last(k) - 1) : SubSeq(s, j, j + 1) = "--"},
                          LAMBDA dashes :
                            IF dashes = {} THEN last(k) ELSE Min(dashes) - 1)
      IN  ConcatRange([k \in 1..(Len(eol) + 1) |->
                         With(code(k), LAMBDA c : TokensIn(s, first(k), c))],
                      1, Len(eol) + 1))

Tok(toks, i) == IF i >= 1 /\ i <= Len(toks) THEN toks[i] ELSE ""
Kw(toks, i, k) == Upper(Tok(toks, i)) = k

IsNumber(t) == t # "" /\ \A k \in 1..Len(t) : Ch(t, k) \in Digit
IsIdent(t) ==
    /\ t # ""
    /\ Ch(t, 1) \in Word \ Digit
    /\ Upper(t) \notin Reserved

Failed == [ok |-> FALSE, node |-> None, pos |-> 0]
Parsed(node, pos) == [ok |-> TRUE, node |-> node, pos |-> pos]

Column(name, table) == [kind |-> "Column", name |-> name, table |-> table]
Table(name) == [kind |-> "Table", name |-> name]

\* a column, a qualified column or a number
ParseOperand(toks, i) ==
    IF IsNumber(Tok(toks, i))
    THEN Parsed([kind |-> "Literal", this |-> Tok(toks, i)], i + 1)
    ELSE IF ~IsIdent(Tok(toks, i)) THEN Failed
    ELSE IF Tok(toks, i + 1) = "." /\ IsIdent(Tok(toks, i + 2))
         THEN Parsed(Column(Tok(toks, i + 2), Tok(toks, i)), i + 3)
         ELSE Parsed(Column(Tok(toks, i), ""), i + 1)

NoNodes == [ok |-> FALSE, nodes |-> <<>>, pos |-> 0]

RECURSIVE ParseOperands(_, _)
ParseOperands(toks, i) ==
    With(ParseOperand(toks, i), LAMBDA p :
      IF ~p.ok THEN NoNodes
      ELSE IF Tok(toks, p.pos) # "," THEN [ok |-> TRUE, nodes |-> <<p.node>>, pos |-> p.pos]
      ELSE With(ParseOperands(toks, p.pos + 1), LAMBDA r :
             [ok |-> r.ok, nodes |-> <<p.node>> \o r.nodes, pos |-> r.pos]))

\* one item of the projection list: *, f(*), f(x) or an operand
ParseProjection(toks, i) ==
    IF Tok(toks, i) = "*" THEN Parsed([kind |-> "Star"], i + 1)
    ELSE IF IsIdent(Tok(toks, i)) /\ Tok(toks, i + 1) = "("
    THEN IF Tok(toks, i + 2) = "*" /\ Tok(toks, i + 3) = ")"
         THEN Parsed([kind |-> "Func", this |-> Tok(toks, i),
                      expressions |-> <<[kind |-> "Star"]>>], i + 4)
         ELSE With(ParseOperand(toks, i + 2), LAMBDA a :
                IF a.ok /\ Tok(toks, a.pos) = ")"
                THEN Parsed([kind |-> "Func", this |-> Tok(toks, i),
                             expressions |-> <<a.node>>], a.pos + 1)
                ELSE Failed)
    ELSE ParseOperand(toks, i)

RECURSIVE ParseProjections(_, _)
ParseProjections(toks, i) ==
    With(ParseProjection(toks, i), LAMBDA p :
      IF ~p.ok THEN NoNodes
      ELSE IF Tok(toks, p.pos) # "," THEN [ok |-> TRUE, nodes |-> <<p.node>>, pos |-> p.pos]
      ELSE With(ParseProjections(toks, p.pos + 1), LAMBDA r :
             [ok |-> r.ok, nodes |-> <<p.node>> \o r.nodes, pos |-> r.pos]))

RECURSIVE ParseSelect(_, _)
RECURSIVE ParseConjunction(_, _)

\* a table name, or a parenthesized query with an optional [AS] alias
ParseTable(toks, i) ==
    IF IsIdent(Tok(toks, i)) THEN Parsed(Table(Tok(toks, i)), i + 1)
    ELSE IF Tok(toks, i) # "(" THEN Failed
    ELSE With(ParseSelect(toks, i + 1), LAMBDA q :
           LET a == IF Kw(toks, q.pos + 1, "AS") THEN q.pos + 2 ELSE q.pos + 1
           IN  IF ~(q.ok /\ Tok(toks, q.pos) = ")") THEN Failed
               ELSE IF IsIdent(Tok(toks, a))
               THEN Parsed([kind |-> "Subquery", this |-> q.node, alias |-> Tok(toks, a)],
                           a + 1)
               ELSE IF a = q.pos + 1
               THEN Parsed([kind |-> "Subquery", this |-> q.node, alias |-> ""],
                           q.pos + 1)
               ELSE Failed)

RECURSIVE ParseTables(_, _)
ParseTables(toks, i) ==
    With(ParseTable(toks, i), LAMBDA p :
      IF ~p.ok THEN NoNodes
      ELSE IF Tok(toks, p.pos) # "," THEN [ok |-> TRUE, nodes |-> <<p.node>>, pos |-> p.pos]
      ELSE With(ParseTables(toks, p.pos + 1), LAMBDA r :
             [ok |-> r.ok, nodes |-> <<p.node>> \o r.nodes, pos |-> r.pos]))

\* JOIN table [ON condition], repeated
RECURSIVE ParseJoins(_, _)
ParseJoins(toks, i) ==
    IF ~Kw(toks, i, "JOIN") THEN [ok |-> TRUE, nodes |-> <<>>, pos |-> i]
    ELSE With(ParseTable(toks, i + 1), LAMBDA t :
         IF ~t.ok THEN NoNodes
         ELSE With(IF Kw(toks, t.pos, "ON") THEN ParseConjunction(toks, t.pos + 1)
                   ELSE Parsed(None, t.pos), LAMBDA c :
              IF ~c.ok THEN NoNodes
              ELSE With(ParseJoins(toks, c.pos), LAMBDA r :
                   IF ~r.ok THEN NoNodes
                   ELSE [ok |-> TRUE,
                         nodes |-> <<[kind |-> "Join", this |-> t.node, on |-> c.node]>>
                                     \o r.nodes,
                         pos |-> r.pos])))

\* operand, operand = operand, operand IN (query), operand IN (operands)
ParsePredicate(toks, i) ==
    With(ParseOperand(toks, i), LAMBDA a :
      IF ~a.ok THEN Failed
      ELSE IF Tok(toks, a.pos) = "="
      THEN With(ParseOperand(toks, a.pos + 1), LAMBDA b :
             IF b.ok
             THEN Parsed([kind |-> "EQ", this |-> a.node, expression |-> b.node], b.pos)
             ELSE Failed)
      ELSE IF Kw(toks, a.pos, "IN") /\ Tok(toks, a.pos + 1) = "("
      THEN IF Kw(toks, a.pos + 2, "SELECT")
           THEN With(ParseSelect(toks, a.pos + 2), LAMBDA q :
                  IF q.ok /\ Tok(toks, q.pos) = ")"
                  THEN Parsed([kind |-> "In", this |-> a.node,
                               query |-> [kind |-> "Subquery", this |-> q.node,
                                          alias |-> ""],
                               expressions |-> <<>>], q.pos + 1)
                  ELSE Failed)
           ELSE With(ParseOperands(toks, a.pos + 2), LAMBDA l :
                  IF l.ok /\ Tok(toks, l.pos) = ")"
                  THEN Parsed([kind |-> "In", this |-> a.node, query |-> None,
                               expressions |-> l.nodes], l.pos + 1)
                  ELSE Failed)
      ELSE a)

\* predicate {AND predicate}
RECURSIVE ParseAnd(_, _, _)
ParseAnd(toks, left, i) ==
    IF ~Kw(toks, i, "AND") THEN Parsed(left, i)
    ELSE With(ParsePredicate(toks, i + 1), LAMBDA r :
           IF ~r.ok THEN Failed
           ELSE With([kind |-> "And", this |-> left, expression |-> r.node], LAMBDA both :
                  ParseAnd(toks, both, r.pos)))

ParseConjunction(toks, i) ==
    With(ParsePredicate(toks, i), LAMBDA a :
      IF a.ok THEN ParseAnd(toks, a.node, a.pos) ELSE Failed)

\* SELECT [DISTINCT] projections [FROM tables joins] [WHERE condition]
\* [ORDER BY operands] [LIMIT number]
ParseSelect(toks, i) ==
    IF ~Kw(toks, i, "SELECT") THEN Failed
    ELSE
    With(Kw(toks, i + 1, "DISTINCT"), LAMBDA distinct :
    With(ParseProjections(toks, IF distinct THEN i + 2 ELSE i + 1), LAMBDA proj :
    IF ~proj.ok THEN Failed
    ELSE
    With(Kw(toks, proj.pos, "FROM"), LAMBDA hasFrom :
    With(IF hasFrom THEN ParseTables(toks, proj.pos + 1)
         ELSE [ok |-> TRUE, nodes |-> <<>>, pos |-> proj.pos], LAMBDA tabs :
    IF ~tabs.ok THEN Failed
    ELSE
    With(ParseJoins(toks, tabs.pos), LAMBDA joins :
    IF ~joins.ok THEN Failed
    ELSE
    With(Kw(toks, joins.pos, "WHERE"), LAMBDA hasWhere :
    With(IF hasWhere THEN ParseConjunction(toks, joins.pos + 1)
         ELSE Parsed(None, joins.pos), LAMBDA cond :
    IF ~cond.ok THEN Failed
    ELSE
    With(Kw(toks, cond.pos, "ORDER") /\ Kw(toks, cond.pos + 1, "BY"), LAMBDA hasOrder :
    With(IF hasOrder THEN ParseOperands(toks, cond.pos + 2)
         ELSE [ok |-> TRUE, nodes |-> <<>>, pos |-> cond.pos], LAMBDA order :
    IF ~order.ok THEN Failed
    ELSE
    With(Kw(toks, order.pos, "LIMIT"), LAMBDA hasLimit :
    IF hasLimit /\ ~IsNumber(Tok(toks, order.pos + 1)) THEN Failed
    ELSE Parsed(
           [kind |-> "Select",
            distinct |-> distinct,
            expressions |-> proj.nodes,
            from |-> IF hasFrom THEN [kind |-> "From", expressions |-> tabs.nodes]
                     ELSE None,
            joins |-> joins.nodes,
            where |-> IF hasWhere THEN [kind |-> "Where", this |-> cond.node]
                      ELSE None,
            order |-> order.nodes,
            limit |-> IF hasLimit
                      THEN [kind |-> "Limit", expression |-> Tok(toks, order.pos + 1)]
                      ELSE None],
           IF hasLimit THEN order.pos + 2 ELSE order.pos)))))))))))

\* the statements of a text: the tokens between the semicolons; no statement
\* starts after a semicolon that ends the text
Chunks(toks) ==
    With(SortSet({i \in 1..Len(toks) : toks[i] = ";"}), LAMBDA semi :
      LET count == IF semi # <<>> /\ semi[Len(semi)] = Len(toks)
                   THEN Len(semi) ELSE Len(semi) + 1
      IN  [k \in 1..count |->
             SubSeq(toks, IF k = 1 THEN 1 ELSE semi[k - 1] + 1,
                          IF k = Len(semi) + 1 THEN Len(toks) ELSE semi[k] - 1)])

ParseStatement(chunk) ==
    With(ParseSelect(chunk, 1), LAMBDA p :
      IF p.ok /\ p.pos = Len(chunk) + 1 THEN p ELSE Failed)

\* parse_one: every statement is parsed, the first one is returned
ParseOne(text) ==
    With(Tokenize(text), LAMBDA toks :
    With(Chunks(toks), LAMBDA chunks :
      IF /\ chunks[1] # <<>>
         /\ \A k \in 2..Len(chunks) : chunks[k] = <<>> \/ ParseStatement(chunks[k]).ok
      THEN ParseStatement(chunks[1])
      ELSE Failed))

\* exp.condition(text): the text parsed as a condition
Condition(text) ==
    With(Tokenize(text), LAMBDA toks :
    With(ParseConjunction(toks, 1), LAMBDA c :
      IF c.ok /\ c.pos = Len(toks) + 1 THEN c ELSE Failed))

(***************************************************************************)
(* Tree search: Expression.find walks the tree breadth first, the node     *)
(* itself first, children in the order of the node's arguments.            *)
(***************************************************************************)
Opt(n) == IF n.kind = "None" THEN <<>> ELSE <<n>>

Children(n) ==
    CASE n.kind = "Select" ->
           n.expressions \o Opt(n.from) \o n.joins \o Opt(n.where) \o n.order
             \o Opt(n.limit)
      [] n.kind = "From" -> n.expressions
      [] n.kind = "Join" -> <<n.this>> \o Opt(n.on)
      [] n.kind = "Where" -> <<n.this>>
      [] n.kind = "Subquery" -> <<n.this>>
      [] n.kind = "Func" -> n.expressions
      [] n.kind = "In" -> <<n.this>> \o Opt(n.query) \o n.expressions
      [] n.kind \in {"EQ", "And"} -> <<n.this, n.expression>>
      [] OTHER -> <<>>

\* the first node of the kind in a level of the tree, or in the levels below it
RECURSIVE FindFirst(_, _)
FindFirst(level, kind) ==
    IF level = <<>> THEN None
    ELSE With({k \in 1..Len(level) : level[k].kind = kind}, LAMBDA hits :
           IF hits # {} THEN level[Min(hits)]
           ELSE With(ConcatRange([k \in 1..Len(level) |-> Children(level[k])],
                                 1, Len(level)),
                     LAMBDA below : FindFirst(below, kind)))

Find(tree, kind) == FindFirst(<<tree>>, kind)

(***************************************************************************)
(* tree.sql(pretty=True): one clause per line, the items of a list and a   *)
(* nested query indented by two spaces.                                    *)
(***************************************************************************)
Indent(lines) == With(lines, LAMBDA l : [k \in 1..Len(l) |-> "  " \o l[k]])

PrefixFirst(prefix, lines) ==
    With(lines, LAMBDA l : [k \in 1..Len(l) |-> IF k = 1 THEN prefix \o l[k] ELSE l[k]])

SuffixLast(lines, suffix) ==
    With(lines, LAMBDA l :
      [k \in 1..Len(l) |-> IF k = Len(l) THEN l[k] \o suffix ELSE l[k]])

\* the items of a list, one after the other, a comma after each but the last
CsvLines(items) ==
    With(items, LAMBDA it :
      ConcatRange([k \in 1..Len(it) |->
                     IF k < Len(it) THEN SuffixLast(it[k], ",") ELSE it[k]],
                  1, Len(it)))

OperandSql(n) ==
    IF n.kind = "Literal" THEN n.this
    ELSE IF n.table # "" THEN n.table \o "." \o n.name
    ELSE n.name

ProjectionSql(n) ==
    IF n.kind = "Star" THEN "*"
    ELSE IF n.kind = "Func"
    THEN Upper(n.this) \o "("
           \o (IF n.expressions[1].kind = "Star" THEN "*" ELSE OperandSql(n.expressions[1]))
           \o ")"
    ELSE OperandSql(n)

RECURSIVE SelectLines(_)
RECURSIVE ExprLines(_)

ExprLines(n) ==
    CASE n.kind = "EQ" -> <<OperandSql(n.this) \o " = " \o OperandSql(n.expression)>>
      [] n.kind = "And" -> ExprLines(n.this) \o PrefixFirst("AND ", ExprLines(n.expression))
      [] n.kind = "In" ->
           IF n.query.kind = "Subquery"
           THEN <<OperandSql(n.this) \o " IN (">> \o Indent(SelectLines(n.query.this))
                  \o <<")">>
           ELSE <<OperandSql(n.this) \o " IN ("
                    \o JoinWith([k \in 1..Len(n.expressions) |->
                                   OperandSql(n.expressions[k])], ", ") \o ")">>
      [] OTHER -> <<OperandSql(n)>>

\* an item of the from-clause: a table, a derived table, or the join the
\* implicit-join rewrite puts there
TableLines(n) ==
    CASE n.kind = "Table" -> <<n.name>>
      [] n.kind = "Subquery" ->
           <<"(">> \o Indent(SelectLines(n.this))
             \o <<IF n.alias # "" THEN ") AS " \o n.alias ELSE ")">>
      [] n.kind = "Join" ->
           <<"JOIN " \o n.this.name \o " ON " \o JoinWith(ExprLines(n.on), " ")>>

FromLines(from) ==
    IF from.kind = "None" THEN <<>>
    ELSE With([k \in 1..Len(from.expressions) |-> TableLines(from.expressions[k])],
              LAMBDA items :
                IF \A k \in 1..Len(items) : Len(items[k]) = 1
                THEN <<"FROM " \o JoinWith([k \in 1..Len(items) |-> items[k][1]], ", ")>>
                ELSE PrefixFirst("FROM ", CsvLines(items)))

JoinLines(joins) ==
    ConcatRange([k \in 1..Len(joins) |->
                   PrefixFirst("JOIN ", TableLines(joins[k].this))
                     \o (IF joins[k].on.kind = "None" THEN <<>>
                         ELSE Indent(PrefixFirst("ON ", ExprLines(joins[k].on))))],
                1, Len(joins))

SelectLines(n) ==
    <<IF n.distinct THEN "SELECT DISTINCT" ELSE "SELECT">>
      \o Indent(CsvLines([k \in 1..Len(n.expressions) |->
                            <<ProjectionSql(n.expressions[k])>>]))
      \o FromLines(n.from)
      \o JoinLines(n.joins)
      \o (IF n.where.kind = "None" THEN <<>>
          ELSE <<"WHERE">> \o Indent(ExprLines(n.where.this)))
      \o (IF n.order = <<>> THEN <<>>
          ELSE <<"ORDER BY">>
                 \o Indent(CsvLines([k \in 1..Len(n.order) |-> <<OperandSql(n.order[k])>>])))
      \o (IF n.limit.kind = "None" THEN <<>> ELSE <<"LIMIT " \o n.limit.expression>>)

Sql(tree) == JoinWith(SelectLines(tree), "\n")

(***************************************************************************)
(* The structural rewriter: optimize_sql_with_sqlglot.  Every exception    *)
(* inside it is caught and turns the result into None (ok = FALSE).        *)
(* assignable tells whether the installed library lets the statement       *)
(* `select.expressions = [...]` replace the projection list:               *)
(* Expression.expressions is a property, and an assignment to a property   *)
(* without a setter raises AttributeError.                                 *)
(***************************************************************************)
NoResult == [ok |-> FALSE, notes |-> NoNotes, body |-> "", out |-> "",
             before |-> None, after |-> None]

Placeholders == <<Column("col1", ""), Column("col2", "")>>

Structural(query, assignable) ==
    With(ParseOne(query), LAMBDA parsed :
    IF ~parsed.ok THEN NoResult
    ELSE
    \* 1. Replace SELECT * with explicit columns if possible
    With(Find(parsed.node, "Select"), LAMBDA select :
    With(IF select.kind # "None" THEN Find(select, "Star") ELSE None, LAMBDA star :
    IF star.kind # "None" /\ ~assignable THEN NoResult
    ELSE
    With(IF star.kind # "None" THEN Record(NoNotes, "SelectStar") ELSE NoNotes, LAMBDA n1 :
    \* the first Select of a statement of the grammar is the statement itself
    With(IF star.kind # "None" THEN [parsed.node EXCEPT !.expressions = Placeholders]
         ELSE parsed.node, LAMBDA t1 :
    \* 2. Convert implicit joins to explicit JOINs
    With((/\ t1.from.kind = "From"
          /\ Len(t1.from.expressions) = 2
          /\ \A k \in 1..2 : t1.from.expressions[k].kind = "Table"), LAMBDA twoTables :
    With(IF twoTables THEN Condition("<join_condition>") ELSE Parsed(None, 0), LAMBDA on :
    IF ~on.ok THEN NoResult
    ELSE
    With(IF twoTables THEN Record(n1, "ImplicitJoin") ELSE n1, LAMBDA n2 :
    With(IF twoTables
         THEN [t1 EXCEPT !.from.expressions =
                 <<t1.from.expressions[1],
                   [kind |-> "Join", this |-> t1.from.expressions[2], on |-> on.node]>>]
         ELSE t1, LAMBDA t2 :
    \* 3. Convert subquery in IN to CTE and JOIN (advice only)
    With(Find(t2, "In"), LAMBDA inExpr :
    With(inExpr.kind = "In" /\ inExpr.query.kind = "Subquery", LAMBDA inSubquery :
    With(IF inSubquery THEN Record(n2, "SubqueryInInClause") ELSE n2, LAMBDA n3 :
    With(IF inSubquery THEN CteAdvice \o Sql(t2) ELSE Sql(t2), LAMBDA sql3 :
    \* 4. Add LIMIT if missing
    With(IF t2.limit.kind = "None" THEN Record(n3, "MissingLimit") ELSE n3, LAMBDA n4 :
    With(IF t2.limit.kind = "None" THEN sql3 \o LimitClause ELSE sql3, LAMBDA sql4 :
      [ok |-> TRUE, notes |-> n4, body |-> sql4, out |-> Assemble(n4, sql4),
       before |-> parsed.node, after |-> t2])))))))))))))))

(***************************************************************************)
(* The dispatcher: optimize_sql.  The structural result is used when it is *)
(* truthy (not None and not the empty string), the fallback otherwise.     *)
(***************************************************************************)
NoFallback == [raised |-> FALSE, notes |-> NoNotes, body |-> "", beforeLimit |-> "",
               afterLimit |-> "", beforeJoin |-> "", afterJoin |-> "",
               beforeDedup |-> "", out |-> ""]

\* a dispatcher that returns the structural result whatever it is
DispatchedStructuralOnly(query, sg) ==
    [path |-> "structural", raised |-> FALSE, notes |-> sg.notes,
     body |-> sg.body, out |-> sg.out, fb |-> NoFallback]

Dispatched(query, sg) ==
    IF sg.ok /\ sg.out # ""
    THEN [path |-> "structural", raised |-> FALSE, notes |-> sg.notes,
          body |-> sg.body, out |-> sg.out, fb |-> NoFallback]
    ELSE With(Fallback(query), LAMBDA fb :
           IF fb.raised
           THEN [path |-> "fallback", raised |-> TRUE, notes |-> NoNotes,
                 body |-> "", out |-> "", fb |-> [NoFallback EXCEPT !.raised = TRUE]]
           ELSE [path |-> "fallback", raised |-> FALSE, notes |-> fb.notes,
                 body |-> fb.body, out |-> fb.out, fb |-> fb])

(***************************************************************************)
(* The queries of the model.  A query is a projection, a from-clause and   *)
(* a tail (WHERE, ORDER BY, LIMIT, terminator); Special adds the queries   *)
(* whose case the product does not hold.  " WHERE" with no condition is a  *)
(* text no SQL parser accepts.                                             *)
(***************************************************************************)
Projections == {"*", "id", "COUNT(*)"}
FromClauses == {"t", "a, b", "a, b, c"}
Tails == {"", ";", " LIMIT 10", " WHERE id IN (SELECT id FROM u)",
          " WHERE id IN (SELECT id FROM u);", " WHERE", " WHERE a.id = b.id",
          " WHERE id IN (SELECT DISTINCT id FROM u LIMIT 5)"}

Special ==
    {"select * from t limit 10",
     "SELECT id FROM a JOIN b ON a.id = b.id",
     "SELECT id FROM a, (SELECT id FROM u) s",
     "SELECT id FROM (SELECT * FROM u) s LIMIT 10",
     "SELECT id FROM t ORDER BY a, b",
     "SELECT * FROM t ORDER BY a, b",
     "SELECT id FROM t WHERE id IN (1, 2)",
     "SELECT id FROM t WHERE id IN (1, 2) AND k IN (SELECT y FROM v)",
     "SELECT id FROM t WHERE id IN (SELECT x FROM u) AND k IN (SELECT DISTINCT y FROM v) AND",
     "SELECT id FROM t WHERE k IN (SELECT DISTINCT y FROM v) AND id IN (SELECT x FROM u) AND",
     "SELECT * FROM a, b WHERE id IN (SELECT x FROM c, d)",
     "SELECT id FROM t JOIN (SELECT x FROM u) s ON",
     "SELECT id FROM t WHERE id IN (SELECT id FROM u LIMIT 5) AND"}

Queries ==
    {"SELECT " \o p \o " FROM " \o f \o t :
        p \in Projections, f \in FromClauses, t \in Tails} \cup Special

\* what a client posts: a query as it is, padded with white space, or blank
Posted == Queries \cup {"", "  ", " \n\t", "  SELECT * FROM t \n", "\nSELECT id FROM t;  "}

\* what a direct caller of optimize_sql passes: texts the endpoint would trim
Direct == {"", "SELECT id FROM t", "SELECT * FROM t; ", "SELECT id FROM t WHERE;\n",
           " SELECT * FROM a, b"}

\* what the completion service answers; "raise" stands for a failed request
Completions == {"raise", " SELECT 1 ", ""}

MaxRuns == 2

(***************************************************************************)
(* The service: one request at a time through optimize_sql_endpoint, or a  *)
(* direct call of optimize_sql; the answer may be submitted again.         *)
(***************************************************************************)
VARIABLES
    api_key,     \* OPENAI_API_KEY is set
    assignable,  \* the library accepts the assignment of the projection list
    pc,          \* "idle", "endpoint", "ai", "core", "dispatch", "done"
    caller,      \* "none", "http", "direct"
    req,         \* the SQLRequest: [query, use_ai]
    query,       \* the text handed on: req.query.strip(), or the direct argument
    sg,          \* sqlglot_result
    result,      \* what optimize_sql did
    response,    \* [status, text]; status 0: no HTTP response
    invoked,     \* the components run for this request, with the text each got
    run,         \* the number of requests so far
    prev         \* the result whose output the current request submits again

vars == <<api_key, assignable, pc, caller, req, query, sg, result, response, invoked,
          run, prev>>

NoOptimize == [path |-> "none", raised |-> FALSE, notes |-> NoNotes, body |-> "",
               out |-> "", fb |-> NoFallback]
NoRequest == [query |-> "", use_ai |-> FALSE]
NoResponse == [status |-> 0, text |-> ""]

Init ==
    /\ api_key \in BOOLEAN
    /\ assignable \in BOOLEAN
    /\ pc = "idle"
    /\ caller = "none"
    /\ req = NoRequest
    /\ query = ""
    /\ sg = NoResult
    /\ result = NoOptimize
    /\ response = NoResponse
    /\ invoked = {}
    /\ run = 0
    /\ prev = NoOptimize

\* a client posts a request to /optimize; the completion path is asked for a
\* few queries only
Submit ==
    /\ pc = "idle"
    /\ run = 0
    /\ \E q \in Posted, ai \in BOOLEAN :
         /\ ai => q \in {"", "  ", "SELECT * FROM t", "  SELECT * FROM t \n"}
         /\ req' = [query |-> q, use_ai |-> ai]
    /\ caller' = "http"
    /\ pc' = "endpoint"
    /\ run' = 1
    /\ UNCHANGED <<api_key, assignable, query, sg, result, response, invoked, prev>>

\* an endpoint that hands the posted text on as it is
ValidateUnchecked ==
    /\ pc = "endpoint"
    /\ query' = req.query
    /\ response' = response
    /\ pc' = IF req.use_ai THEN "ai" ELSE "core"
    /\ UNCHANGED <<api_key, assignable, caller, req, sg, result, invoked, run, prev>>

\* query = req.query.strip(); a blank query is answered with 400
Validate ==
    /\ pc = "endpoint"
    /\ query' = Strip(req.query)
    /\ IF query' = ""
       THEN /\ response' = [status |-> 400, text |-> "SQL query cannot be empty."]
            /\ pc' = "done"
       ELSE /\ response' = response
            /\ pc' = IF req.use_ai THEN "ai" ELSE "core"
    /\ UNCHANGED <<api_key, assignable, caller, req, sg, result, invoked, run, prev>>

\* use_ai without a key on the server
AiNoKey ==
    /\ pc = "ai"
    /\ ~api_key
    /\ response' = [status |-> 500, text |-> "OpenAI API key not set on server."]
    /\ pc' = "done"
    /\ UNCHANGED <<api_key, assignable, caller, req, query, sg, result, invoked, run, prev>>

\* use_ai: the completion is stripped and returned, a failure answered with 500
AiComplete ==
    /\ pc = "ai"
    /\ api_key
    /\ \E c \in Completions :
         /\ response' = IF c = "raise"
                        THEN [status |-> 500, text |-> "AI Optimization error: "]
                        ELSE [status |-> 200, text |-> Strip(c)]
         /\ result' = [NoOptimize EXCEPT !.path = "ai"]
    /\ invoked' = invoked \cup {[who |-> "ai", text |-> query]}
    /\ pc' = "done"
    /\ UNCHANGED <<api_key, assignable, caller, req, query, sg, run, prev>>

\* optimize_sql is called directly
Call ==
    /\ pc = "idle"
    /\ run = 0
    /\ \E q \in Direct : query' = q
    /\ caller' = "direct"
    /\ pc' = "core"
    /\ run' = 1
    /\ UNCHANGED <<api_key, assignable, req, sg, result, response, invoked, prev>>

\* optimize_sql, first line: sqlglot_result = optimize_sql_with_sqlglot(query)
RunStructural ==
    /\ pc = "core"
    /\ sg' = Structural(query, assignable)
    /\ invoked' = invoked \cup {[who |-> "structural", text |-> query]}
    /\ pc' = "dispatch"
    /\ UNCHANGED <<api_key, assignable, caller, req, query, result, response, run, prev>>

\* optimize_sql, the rest: the structural result or the fallback; the endpoint
\* answers 200 with the text, 500 when optimize_sql raised
Dispatch ==
    /\ pc = "dispatch"
    /\ result' = Dispatched(query, sg)
    /\ invoked' = IF result'.path = "fallback"
                  THEN invoked \cup {[who |-> "fallback", text |-> query]}
                  ELSE invoked
    /\ response' = IF caller # "http" THEN NoResponse
                   ELSE IF result'.raised
                   THEN [status |-> 500,
                         text |-> "Optimization error: Could not parse SQL query."]
                   ELSE [status |-> 200, text |-> result'.out]
    /\ pc' = "done"
    /\ UNCHANGED <<api_key, assignable, caller, req, query, sg, run, prev>>

\* the optimized text is submitted again, the same way
Resubmit ==
    /\ pc = "done"
    /\ run < MaxRuns
    /\ result.path \in {"structural", "fallback"}
    /\ ~result.raised
    /\ prev' = result
    /\ run' = run + 1
    /\ sg' = NoResult
    /\ result' = NoOptimize
    /\ response' = NoResponse
    /\ invoked' = {}
    /\ IF caller = "http"
       THEN /\ req' = [query |-> result.out, use_ai |-> FALSE]
            /\ query' = ""
            /\ pc' = "endpoint"
       ELSE /\ req' = req
            /\ query' = result.out
            /\ pc' = "core"
    /\ UNCHANGED <<api_key, assignable, caller>>

Next ==
    \/ Submit
    \/ Validate
    \/ AiNoKey
    \/ AiComplete
    \/ Call
    \/ RunStructural
    \/ Dispatch
    \/ Resubmit

Spec == Init /\ [][Next]_vars

(***************************************************************************)
(* Properties.  A finished run of optimize_sql is a state with pc = "done" *)
(* whose result took the structural or the fallback path.                  *)
(***************************************************************************)
Optimized == pc = "done" /\ result.path \in {"structural", "fallback"}

Has(notes, kind) == \E k \in 1..Len(notes.kinds) : notes.kinds[k] = kind

Blank(s) == \A i \in 1..Len(s) : Ch(s, i) \in Space

Trimmed(s) == s = "" \/ (Ch(s, 1) \notin Space /\ Ch(s, Len(s)) \notin Space)

\* C1: for every non-blank query optimize_sql returns a non-empty string and
\* raises nothing; when the structural rewriter gave nothing (its parser threw,
\* or it returned None or an empty text) the fallback ran on the query and its
\* text is what is returned; the endpoint answers 200 with that text.
C1_NonEmptyNoRaise ==
    (Optimized /\ ~Blank(query)) =>
       /\ ~result.raised
       /\ result.out # ""
       /\ ~(sg.ok /\ sg.out # "") =>
            /\ result.path = "fallback"
            /\ ~result.fb.raised
            /\ result.out = result.fb.out
            /\ [who |-> "fallback", text |-> query] \in invoked
       /\ caller = "http" => response = [status |-> 200, text |-> result.out]

\* C1, its case: the parser rejected a non-blank query and the fallback answered
C1_Witness ==
    /\ Optimized
    /\ ~Blank(query)
    /\ ~sg.ok
    /\ result.path = "fallback"
    /\ result.out # ""
    /\ response.status = 200

RECURSIVE EachLine(_, _, _)
EachLine(lines, before, after) ==
    IF lines = <<>> THEN ""
    ELSE before \o Head(lines) \o after \o EachLine(Tail(lines), before, after)

KindIndex(kind) == CHOOSE i \in 1..Len(Kinds) : Kinds[i] = kind

\* C2: on both paths the output is one comment line per finding, in detection
\* order, then the body, then, exactly when there is a finding, the banner and
\* one explanation line per finding in the same order; there are as many
\* comment lines as explanation lines; SubqueryMissingDedup is a finding of the
\* fallback only; with no finding the output is the body alone.
C2_Assembly ==
    (Optimized /\ ~result.raised) =>
       LET n == result.notes
           count == Len(n.kinds)
       IN  /\ Len(n.suggestions) = count
           /\ Len(n.explanations) = count
           /\ \A j, k \in 1..count : j < k => KindIndex(n.kinds[j]) < KindIndex(n.kinds[k])
           /\ \A k \in 1..count :
                /\ n.suggestions[k] = Comment[n.kinds[k]]
                /\ SubSeq(n.suggestions[k], 1, 3) = "-- "
                /\ n.explanations[k] = Explanation[n.kinds[k]]
           /\ result.path = "structural" => ~Has(n, "SubqueryMissingDedup")
           /\ result.out =
                EachLine(n.suggestions, "", "\n") \o result.body
                  \o (IF count = 0 THEN ""
                      ELSE "\n-- What Was Optimized and Why:"
                             \o EachLine(n.explanations, "\n-- ", ""))
           /\ count = 0 => result.out = result.body

\* C2, its case: a fallback run with all five findings
C2_Witness ==
    /\ Optimized
    /\ result.path = "fallback"
    /\ result.notes.kinds = Kinds
    /\ Contains(result.out, "\n-- What Was Optimized and Why:\n-- SELECT * replaced")

\* C7: a blank query posted to /optimize is answered with 400 and reaches no
\* component; whatever the structural rewriter, the fallback or the completion
\* path is given is the posted query trimmed, and it is not blank.
C7_BlankRejected ==
    caller = "http" =>
       /\ \A e \in invoked :
            ~Blank(e.text) /\ Trimmed(e.text) /\ e.text = Strip(req.query)
       /\ pc \in {"ai", "core", "dispatch"} =>
            ~Blank(query) /\ Trimmed(query) /\ query = Strip(req.query)
       /\ (pc \notin {"idle", "endpoint"} /\ Blank(req.query)) =>
            /\ pc = "done"
            /\ response = [status |-> 400, text |-> "SQL query cannot be empty."]
            /\ invoked = {}
            /\ result.path = "none"

\* C7, its case: a whitespace-only query was answered with 400
C7_Witness ==
    /\ caller = "http"
    /\ pc = "done"
    /\ req.query # ""
    /\ Blank(req.query)
    /\ response.status = 400
    /\ invoked = {}

\* C7, its other case: a padded query reached the rewriters trimmed
C7_TrimmedReached ==
    /\ caller = "http"
    /\ pc = "done"
    /\ req.query # Strip(req.query)
    /\ [who |-> "structural", text |-> Strip(req.query)] \in invoked

(***************************************************************************)
(* What the claims below say of a query is read off the query itself: its  *)
(* tree for the structural rewriter, its characters for the fallback.      *)
(***************************************************************************)
\* the structural rewriter has run on a query its parser accepts
StructuralRan == pc = "dispatch" /\ ParseOne(query).ok

\* the first projection list has a wildcard item
TopWildcard(tree) == \E k \in 1..Len(tree.expressions) : tree.expressions[k].kind = "Star"

\* C3: the structural rewriter records SelectStar and puts col1, col2 in the
\* place of the projection list exactly when the first projection list has a
\* wildcard item; a wildcard nested deeper (a function argument, a subquery)
\* gives no SelectStar finding and the projection list stays as it is.
C3_SelectStarExactly ==
    StructuralRan =>
       LET tree == ParseOne(query).node
       IN  /\ TopWildcard(tree) =>
                /\ sg.ok
                /\ Has(sg.notes, "SelectStar")
                /\ sg.after.expressions = Placeholders
           /\ ~TopWildcard(tree) =>
                /\ ~Has(sg.notes, "SelectStar")
                /\ sg.ok => sg.after.expressions = tree.expressions

\* C3, the divergence: the only wildcard is nested, SelectStar is recorded and
\* the projection list replaced
C3_NestedFlagged ==
    /\ StructuralRan
    /\ ~TopWildcard(ParseOne(query).node)
    /\ Has(sg.notes, "SelectStar")
    /\ sg.after.expressions = Placeholders

\* the from-clause names exactly two tables and the statement has no join
TwoTables(tree) ==
    /\ tree.from.kind = "From"
    /\ Len(tree.from.expressions) = 2
    /\ \A k \in 1..2 : tree.from.expressions[k].kind = "Table"
    /\ tree.joins = <<>>

\* C4: the structural rewriter records ImplicitJoin exactly when the
\* from-clause names two tables and no join; then, and only then, the
\* from-clause becomes the first table joined with the second on
\* <join_condition>; otherwise the from-clause stays as it is.
C4_ImplicitJoinExactly ==
    StructuralRan =>
       LET tree == ParseOne(query).node
       IN  /\ TwoTables(tree) =>
                /\ sg.ok
                /\ Has(sg.notes, "ImplicitJoin")
                /\ sg.after.from.expressions[1] = tree.from.expressions[1]
                /\ sg.after.from.expressions[2].kind = "Join"
                /\ sg.after.from.expressions[2].this = tree.from.expressions[2]
                /\ Contains(sg.body, "<join_condition>")
           /\ ~TwoTables(tree) =>
                /\ ~Has(sg.notes, "ImplicitJoin")
                /\ sg.ok => sg.after.from = tree.from

\* C4, the divergence: two tables, no wildcard, and the rewriter gave nothing
C4_TwoTablesNothing ==
    /\ StructuralRan
    /\ TwoTables(ParseOne(query).node)
    /\ Find(ParseOne(query).node, "Star").kind = "None"
    /\ ~sg.ok
    /\ sg.notes = NoNotes

\* the number of parentheses open at position i of a text
Depth(s, i) ==
    Cardinality({j \in 1..(i - 1) : Ch(s, j) = "("})
      - Cardinality({j \in 1..(i - 1) : Ch(s, j) = ")"})

\* the statement itself, not a subquery of it, has a LIMIT with a number
TopLevelLimit(s) == \E i \in 1..Len(s) : ReLimit(s, i) # 0 /\ Depth(s, i) = 0

\* C5: on either path MissingLimit is recorded and "LIMIT 100;" appended
\* exactly when the statement itself has no LIMIT; a LIMIT of the statement is
\* kept and no other added; a LIMIT inside a subquery does not count.  Stated
\* of the first run, whose query carries no comment lines.
C5_MissingLimitExactly ==
    (Optimized /\ run = 1 /\ ~result.raised) =>
       /\ ~TopLevelLimit(query) =>
            /\ Has(result.notes, "MissingLimit")
            /\ EndsWith(result.body, "\nLIMIT 100;")
       /\ TopLevelLimit(query) =>
            /\ ~Has(result.notes, "MissingLimit")
            /\ ~Contains(result.body, "LIMIT 100")

\* C5, the divergence: the only LIMIT is inside a subquery and the fallback
\* records no MissingLimit and appends nothing
C5_SubqueryLimitCounted ==
    /\ Optimized
    /\ run = 1
    /\ result.path = "fallback"
    /\ ~result.raised
    /\ ~TopLevelLimit(query)
    /\ ~Has(result.notes, "MissingLimit")
    /\ ~Contains(result.body, "LIMIT 100")

\* the first run rewrote a two-table from-clause
JoinRewritten(r) ==
    /\ Has(r.notes, "ImplicitJoin")
    /\ Contains(r.body, "<join_condition>")

\* C6: a second run on the whole output of the first records no SelectStar when
\* the first recorded SelectStar, and no ImplicitJoin when the first recorded
\* ImplicitJoin and rewrote two tables, on the structural and the fallback path.
C6_NotFoundAgain ==
    (Optimized /\ run >= 2 /\ ~result.raised) =>
       /\ Has(prev.notes, "SelectStar") => ~Has(result.notes, "SelectStar")
       /\ JoinRewritten(prev) => ~Has(result.notes, "ImplicitJoin")

\* C6, the divergence: SelectStar recorded by the first run and again by the
\* second, which read it off the comment lines of the first
C6_FoundAgain ==
    /\ Optimized
    /\ run = 2
    /\ query = prev.out
    /\ Has(prev.notes, "SelectStar")
    /\ Has(result.notes, "SelectStar")
    /\ result.path = "fallback"
    /\ Contains(prev.body, "SELECT col1, col2 FROM a JOIN b ON <join_condition>")
    /\ ~Contains(prev.body, "*")

\* C8: when the fallback records MissingLimit for a query that ends with ";"
\* (white space may follow it), the text ends with "\nLIMIT 100;" and what is
\* before the appended clause does not end with ";"; for a query with no
\* trailing ";" the text is the text so far followed by "\nLIMIT 100;".
C8_TerminatorRestored ==
    (Optimized /\ result.path = "fallback" /\ ~result.raised
       /\ Has(result.notes, "MissingLimit")) =>
       LET before == result.fb.beforeLimit
           after == result.fb.afterLimit
           kept == SubSeq(after, 1, Len(after) - Len(LimitClause))
       IN  /\ EndsWith(after, LimitClause)
           /\ IF EndsWith(RStrip(query, Space), ";")
              THEN ~EndsWith(RStrip(kept, Space), ";")
              ELSE after = before \o LimitClause

\* C8, the divergence: ";" and white space are left before the appended clause
C8_TerminatorKept ==
    /\ Optimized
    /\ result.path = "fallback"
    /\ Has(result.notes, "MissingLimit")
    /\ \/ Contains(result.fb.afterLimit, "; \nLIMIT 100;")
       \/ Contains(result.fb.afterLimit, ";\n\nLIMIT 100;")

\* the ends of the "IN (SELECT" of a text
InSelects(s) == {ReInSelect(s, i) : i \in 1..Len(s)} \ {0}

\* DISTINCT is the word after position p
DistinctAt(s, p) ==
    /\ p <= Len(s)
    /\ Ch(s, p) \in Space
    /\ MatchLit(s, Skip(s, p, Space), "DISTINCT")

\* the number of DISTINCT, up to two, after position p
DistinctCount(s, p) ==
    IF ~DistinctAt(s, p) THEN 0
    ELSE IF DistinctAt(s, Skip(s, p, Space) + 8) THEN 2
    ELSE 1

\* C9: the fallback records SubqueryMissingDedup exactly when some IN-subquery
\* has no DISTINCT; after the step every IN-subquery has exactly one DISTINCT
\* after its SELECT, also when the query has several IN-subqueries; a query
\* with no IN-subquery is not touched by the step.  Stated of the first run.
C9_DistinctOnce ==
    (Optimized /\ run = 1 /\ result.path = "fallback" /\ ~result.raised) =>
       LET before == result.fb.beforeDedup
           after == result.body
       IN  /\ Has(result.notes, "SubqueryMissingDedup")
                <=> \E p \in InSelects(before) : DistinctCount(before, p) = 0
           /\ \A p \in InSelects(after) : DistinctCount(after, p) = 1
           /\ InSelects(before) = {} => after = before

\* C9, the divergence: an IN-subquery that had DISTINCT got a second one
C9_DistinctTwice ==
    /\ Optimized
    /\ run = 1
    /\ result.path = "fallback"
    /\ ~Contains(result.fb.beforeDedup, "DISTINCT DISTINCT")
    /\ Contains(result.body, "IN (SELECT DISTINCT DISTINCT")

ClauseKeywords == {"WHERE", "GROUP", "HAVING", "ORDER", "LIMIT", "JOIN", "ON"}

\* word w stands at position i as a whole word
WordAt(s, i, w) ==
    /\ MatchLit(s, i, w)
    /\ i = 1 \/ Ch(s, i - 1) \notin Word
    /\ i + Len(w) > Len(s) \/ Ch(s, i + Len(w)) \notin Word

\* the table list of the first from-clause of a text: from the first word
\* after FROM up to the next clause keyword, parenthesis or semicolon;
\* [first, last] with last < first when there is no list
TableList(s) ==
    LET froms == {i \in 1..Len(s) : WordAt(s, i, "FROM")}
    IN  IF froms = {} THEN [first |-> 1, last |-> 0]
        ELSE LET start == Skip(s, Min(froms) + 4, Space)
                 stop == Min({j \in start..(Len(s) + 1) :
                                \/ j = Len(s) + 1
                                \/ Ch(s, j) \in {"(", ")", ";"}
                                \/ \E w \in ClauseKeywords : WordAt(s, j, w)})
             IN  [first |-> start,
                  last |-> LastOutside(SubSeq(s, 1, stop - 1), Space)]

\* C10: the fallback records ImplicitJoin exactly when the table list of the
\* from-clause, the text between FROM and the next clause keyword, has a comma;
\* when the list has two names only the list is replaced, by
\* "<first> JOIN <second> ON <join_condition>", and the text before and after
\* it stays as it is.  Stated of the first run.
C10_TableListOnly ==
    (Optimized /\ run = 1 /\ result.path = "fallback" /\ ~result.raised) =>
       LET before == result.fb.beforeJoin
           after == result.fb.afterJoin
           at == TableList(before)
           list == SubSeq(before, at.first, at.last)
           names == SplitComma(list)
       IN  /\ Has(result.notes, "ImplicitJoin") <=> Contains(list, ",")
           /\ IF Contains(list, ",") /\ Len(names) = 2
              THEN after = SubSeq(before, 1, at.first - 1)
                             \o names[1] \o " JOIN " \o names[2] \o " ON <join_condition>"
                             \o SubSeq(before, at.last + 1, Len(before))
              ELSE after = before

\* C10, the divergence: the clause after the table list was taken into the join
C10_ClauseRewritten ==
    /\ Optimized
    /\ run = 1
    /\ result.path = "fallback"
    /\ Has(result.notes, "ImplicitJoin")
    /\ Contains(result.fb.beforeJoin, "FROM a, b WHERE a.id = b.id")
    /\ Contains(result.fb.afterJoin, "FROM a JOIN b WHERE a ON <join_condition>.id = b.id")

=============================================================================
